---- MODULE Spec2Model ----
(***************************************************************************)
(* Duplicate-request coordinator of CU-Boulder-RAG-Search:                 *)
(* src/src/filters/dupefilter.py (RedisBasedDupeFilter,                    *)
(* SQLiteBasedDupeFilter, FileBasedDupeFilter) and                         *)
(* src/src/filters/qdrant_dupefilter.py (QdrantDupeFilter).                *)
(*                                                                         *)
(* A caller is one thread of control that calls into a filter instance;    *)
(* owner[c] is the filter instance (one per crawler process) it calls.     *)
(* The shared store is the Redis key space, the SQLite database file or    *)
(* the flat text file, according to dupefilter_class.                      *)
(***************************************************************************)
EXTENDS Integers, Sequences, FiniteSets, TLC

\* Largest number of concurrent callers of the model.
MaxCallers == 2

Callers == 1 .. MaxCallers

Nil == "nil"

\* The value of file when the path does not exist (no line is "nofile").
NoFile == <<"nofile">>

NoCall == [c |-> 0, fp |-> Nil, out |-> Nil, fault |-> Nil, retry |-> FALSE]

----------------------------------------------------------------------------
(* Requests and fingerprints *)

page1 == "https://example.com/page1"

page2 == "https://example.com/page2"

\* url1, url2, url3 of the tests: url3 is a second Request object for page1.
Requests ==
  { [obj |-> 1, url |-> page1], [obj |-> 2, url |-> page2], [obj |-> 3, url |-> page1] }

\* Mutant: the digest depends on the Request object.
fingerprint_of_object(request) ==
  IF request.obj = 1 THEN <<161>> ELSE IF request.obj = 2 THEN <<43>> ELSE <<7>>

\* scrapy.utils.request.fingerprint: a digest (bytes) of the canonical
\* request; it depends on the url, not on the Request object.  The digest is
\* cut to one byte here.
fingerprint(request) ==
  IF request.url = page1 THEN <<161>> ELSE <<43>>

HexDigit ==
  <<"0", "1", "2", "3", "4", "5", "6", "7", "8", "9", "a", "b", "c", "d", "e", "f">>

\* bytes.hex()
RECURSIVE hex(_)
hex(bytes) ==
  IF bytes = <<>> THEN ""
  ELSE HexDigit[(Head(bytes) \div 16) + 1] \o HexDigit[(Head(bytes) % 16) + 1]
         \o hex(Tail(bytes))

\* HexOf[r]: fingerprint(request).hex() of each request.
HexOf == [r \in Requests |-> hex(fingerprint(r))]

get_request_fingerprint(request) == HexOf[request]

Fingerprints == { get_request_fingerprint(r) : r \in Requests }

\* request.url of the requests.
Urls == { r.url : r \in Requests }

\* The digest a hex fingerprint renders (used to order hex strings).
BytesOf(fp) == CHOOSE b \in { fingerprint(r) : r \in Requests } : hex(b) = fp

\* Lexicographic order of the hex strings = order of the digests.
RECURSIVE BytesLess(_, _)
BytesLess(a, b) ==
  IF a = <<>> THEN b # <<>>
  ELSE IF b = <<>> THEN FALSE
  ELSE IF Head(a) # Head(b) THEN Head(a) < Head(b)
  ELSE BytesLess(Tail(a), Tail(b))

\* Mutant: sorted(set, reverse=True)
RECURSIVE sorted_reverse(_)
sorted_reverse(S) ==
  IF S = {} THEN <<>>
  ELSE LET m == CHOOSE x \in S : \A y \in S \ {x} : BytesLess(BytesOf(y), BytesOf(x))
       IN  <<m>> \o sorted_reverse(S \ {m})

\* sorted(set)
RECURSIVE sorted(_)
sorted(S) ==
  IF S = {} THEN <<>>
  ELSE LET m == CHOOSE x \in S : \A y \in S \ {x} : BytesLess(BytesOf(x), BytesOf(y))
       IN  <<m>> \o sorted(S \ {m})

Range(s) == { s[k] : k \in 1 .. Len(s) }

----------------------------------------------------------------------------
(* State *)

VARIABLES
  DUPEFILTER_CLASS,   \* the DUPEFILTER_CLASS entry of the config file's settings, or Nil (missing)
  DUPEFILTER_KEY_PREFIX, \* DUPEFILTER_KEY_PREFIX[i]: the key prefix in the settings of instance i's crawler
  dupefilter_class,   \* "redis" | "sqlite" | "file": the backend selected for the crawlers
  workers,            \* the callers that were launched
  owner,              \* owner[c]: the filter instance caller c calls into
  status,             \* status[i]: "new" (constructed) | "open" | "closed"; out of the
                      \* lifecycle also "failed", "partial" (open() raised) and "reopened"
  pc,                 \* pc[c]: where caller c is inside a call
  arg,                \* arg[c]: fingerprint of the call in progress, or Nil
  todo,               \* todo[c]: keys the running scan of clear() has yet to return
  redis_keys,         \* the keys of the Redis store
  seen_urls,          \* committed rows of the SQLite table seen_urls
  wal,                \* the table as the write-lock holder's open transaction sees it
  write_lock,         \* instance holding SQLite's write lock, or 0
  in_transaction,     \* in_transaction[i]: the connection has an open transaction
  overdue,            \* the write lock has been kept longer than the lock wait (timeout=30.0)
  timed_out,          \* history: timed_out[c] = fingerprint of c's call that last raised on the lock, until c's next completed call
  file,               \* lines of the flat file, or NoFile
  seen_fingerprints,  \* seen_fingerprints[i]: in-memory set of a FileBasedDupeFilter
  grants,             \* history: grants[fp] = calls told False for fp since fp was last cleared (0, 1, 2 = more)
  claimant,           \* history: claimant[fp] = the caller told False first (0: none, or a filter since replaced)
  calls,              \* history of a single worker: calls[fp] = request_seen calls carrying fp since the last clear (0, 1, 2 = more)
  errs,               \* history of a single worker: fingerprints a call raised for since the last clear
  cleared,            \* history of a single worker: fingerprints that were claimed when the last clear ran
  fingerprints,       \* fingerprints[i]: URLs a QdrantDupeFilter has seen in its session
  points,             \* URLs (metadata.url) that have a point in the Qdrant collection
  falses,             \* history: falses[i][url] = request_seen calls of the session told False for url (0, 1, 2 = more)
  failed,             \* history: failed[i] = URLs for which a Qdrant query of the session raised
  raced,              \* history: raced[fp] = "during" (granted while a clear was scanning), "again" (and granted once more after that), or "no"
  last                \* history: the request_seen call that completed in the last step

vars ==
  << DUPEFILTER_CLASS, DUPEFILTER_KEY_PREFIX, dupefilter_class, workers, owner, status, pc, arg, todo, redis_keys,
     seen_urls, wal, write_lock, in_transaction, overdue, timed_out, file, seen_fingerprints,
     fingerprints, points, falses, failed, grants, claimant, calls, errs, cleared, raced, last >>

config == << DUPEFILTER_CLASS, DUPEFILTER_KEY_PREFIX, dupefilter_class, workers, owner >>

redisVars == << redis_keys >>

sqliteVars == << seen_urls, wal, write_lock, in_transaction, overdue >>

fileVars == << file, seen_fingerprints >>

qdrantVars == << fingerprints, points, falses, failed >>

history == << grants, claimant, calls, errs, cleared, raced >>

Instances == { owner[c] : c \in workers }

CallersOf(i) == { c \in workers : owner[c] = i }

Idle(i) == \A c \in CallersOf(i) : pc[c] = "idle"

Solo == Cardinality(workers) = 1

Verdicts == {"False", "True"}

----------------------------------------------------------------------------
(* History of verdicts *)

Bump(n) == IF n < 2 THEN n + 1 ELSE n

\* Caller c's request_seen for fp ends with out ("False", "True" or the name
\* of the exception it raises); fault names the infrastructure failure it met.
Completes(c, fp, out, fault) ==
  /\ last' = [c |-> c, fp |-> fp, out |-> out, fault |-> fault, retry |-> (timed_out[c] = fp)]
  /\ timed_out' = [timed_out EXCEPT ![c] = IF fault = "locked" THEN fp ELSE Nil]
  /\ grants' = IF out = "False" THEN [grants EXCEPT ![fp] = Bump(@)] ELSE grants
  /\ claimant' = IF out = "False" /\ grants[fp] = 0
                 THEN [claimant EXCEPT ![fp] = c]
                 ELSE claimant
  /\ calls' = IF Solo THEN [calls EXCEPT ![fp] = Bump(@)] ELSE calls
  /\ errs' = IF Solo /\ out \notin Verdicts THEN errs \cup {fp} ELSE errs
  /\ raced' = IF out # "False" THEN raced
              ELSE IF \E d \in workers : pc[d] = "scan" THEN [raced EXCEPT ![fp] = "during"]
              ELSE IF raced[fp] = "during" THEN [raced EXCEPT ![fp] = "again"]
              ELSE raced
  /\ UNCHANGED cleared

\* A step that completes no request_seen call.
Silent == last' = NoCall /\ UNCHANGED << history, timed_out >>

\* A clear() starts: a new sequence of calls begins.
ClearStarts ==
  /\ last' = NoCall
  /\ UNCHANGED timed_out
  /\ cleared' = IF Solo THEN { fp \in Fingerprints : grants[fp] > 0 } ELSE cleared
  /\ calls' = [fp \in Fingerprints |-> 0]
  /\ errs' = {}
  /\ raced' = IF \E d \in workers : pc[d] = "scan" THEN raced ELSE [fp \in Fingerprints |-> "no"]

\* A clear() takes effect in one step: the store is empty.
ClearCompletes ==
  /\ ClearStarts
  /\ grants' = [fp \in Fingerprints |-> 0]
  /\ claimant' = [fp \in Fingerprints |-> 0]

----------------------------------------------------------------------------
(* RedisBasedDupeFilter *)

\* The default key prefix of __init__, from_crawler and clear_redis.
DefaultKeyPrefix == "scrapy:dupefilter"

\* Key prefixes of the settings: the default, the first segment of the
\* default, and an unrelated one.
Prefixes == {DefaultKeyPrefix, "scrapy", "cubuffs"}

\* self.key_prefix of instance i: settings.get('DUPEFILTER_KEY_PREFIX', ...).
key_prefix(i) == DUPEFILTER_KEY_PREFIX[i]

\* Keys[q][fp]: the key f"{q}:{fp}".
Keys == [q \in Prefixes |-> [fp \in Fingerprints |-> q \o ":" \o fp]]

KeyOf(i, fp) == Keys[key_prefix(i)][fp]

\* The keys used with prefix q.
UsedWith(q) == { Keys[q][fp] : fp \in Fingerprints }

\* The server's glob match of SCAN ... MATCH pattern: "*" stands for any
\* run of characters, every other character of these patterns for itself.
RECURSIVE glob_match(_, _)
glob_match(pattern, key) ==
  IF pattern = "" THEN key = ""
  ELSE IF SubSeq(pattern, 1, 1) = "*"
       THEN \/ glob_match(SubSeq(pattern, 2, Len(pattern)), key)
            \/ key # "" /\ glob_match(pattern, SubSeq(key, 2, Len(key)))
       ELSE /\ key # ""
            /\ SubSeq(pattern, 1, 1) = SubSeq(key, 1, 1)
            /\ glob_match(SubSeq(pattern, 2, Len(pattern)), SubSeq(key, 2, Len(key)))

\* Every key request_seen can create.
KeySpace == UNION { UsedWith(q) : q \in Prefixes }

\* MatchedBy[q]: the keys the pattern f"{q}:*" matches.
MatchedBy == [q \in Prefixes |-> { k \in KeySpace : glob_match(q \o ":*", k) }]

\* Keys matching the pattern f"{key_prefix}:*".
Matching(i, keys) == keys \cap MatchedBy[key_prefix(i)]

\* FingerprintOf[k]: the fingerprint key k was built from.
FingerprintOf ==
  [k \in KeySpace |-> CHOOSE fp \in Fingerprints : \E q \in Prefixes : k = Keys[q][fp]]

FpOfKey(i, k) == FingerprintOf[k]

\* Mutant: SET without NX always answers OK.
set_always(keys, key) == TRUE

\* Reply of SET key "1" NX: TRUE when the key was set, FALSE (None) when it
\* existed.  The server executes the command atomically.
set_nx(keys, key) == key \notin keys

RedisOpen(i) ==
  /\ dupefilter_class = "redis"
  /\ i \in Instances
  /\ status[i] = "new"
  /\ Idle(i)
  /\ status' = [status EXCEPT ![i] = "open"]
  /\ Silent
  /\ UNCHANGED << config, qdrantVars, pc, arg, todo, redisVars, sqliteVars, fileVars >>

RedisClose(i) ==
  /\ dupefilter_class = "redis"
  /\ i \in Instances
  /\ status[i] = "open"
  /\ Idle(i)
  /\ status' = [status EXCEPT ![i] = "closed"]
  /\ Silent
  /\ UNCHANGED << config, qdrantVars, pc, arg, todo, redisVars, sqliteVars, fileVars >>

\* request_seen: one command to the server, which is the only point where
\* the call meets the shared store.
RedisRequestSeen(c, request) ==
  LET i == owner[c]
      fp == get_request_fingerprint(request)
      key == KeyOf(i, fp)
      added == set_nx(redis_keys, key)
  IN  /\ dupefilter_class = "redis"
      /\ c \in workers
      /\ status[i] = "open"
      /\ pc[c] = "idle"
      /\ redis_keys' = IF added THEN redis_keys \cup {key} ELSE redis_keys
      /\ Completes(c, fp, IF ~added THEN "True" ELSE "False", "none")
      /\ UNCHANGED << config, qdrantVars, status, pc, arg, todo, sqliteVars, fileVars >>

\* request_seen while the server cannot be reached: the command raises.
RedisRequestSeenUnreachable(c, request) ==
  LET i == owner[c]
      fp == get_request_fingerprint(request)
  IN  /\ dupefilter_class = "redis"
      /\ c \in workers
      /\ status[i] = "open"
      /\ pc[c] = "idle"
      /\ Completes(c, fp, "ConnectionError", "unreachable")
      /\ UNCHANGED << config, qdrantVars, status, pc, arg, todo, redisVars, sqliteVars, fileVars >>

\* Mutant: the scan may end without returning the keys present at its start.
RedisClearScanOwesNothing(c) ==
  LET i == owner[c]
  IN  /\ dupefilter_class = "redis"
      /\ c \in workers
      /\ status[i] = "open"
      /\ pc[c] = "idle"
      /\ pc' = [pc EXCEPT ![c] = "scan"]
      /\ todo' = [todo EXCEPT ![c] = {}]
      /\ ClearStarts
      /\ UNCHANGED << grants, claimant, config, qdrantVars, status, arg, redisVars, sqliteVars, fileVars >>

\* clear(): scan_iter starts; the keys present now are all returned before
\* the scan ends.
RedisClearScan(c) ==
  LET i == owner[c]
  IN  /\ dupefilter_class = "redis"
      /\ c \in workers
      /\ status[i] = "open"
      /\ pc[c] = "idle"
      /\ pc' = [pc EXCEPT ![c] = "scan"]
      /\ todo' = [todo EXCEPT ![c] = Matching(i, redis_keys)]
      /\ ClearStarts
      /\ UNCHANGED << grants, claimant, config, qdrantVars, status, arg, redisVars, sqliteVars, fileVars >>

\* clear(): the scan returns key (one it owes, or one inserted meanwhile) and
\* the loop deletes it.
RedisClearDelete(c, key) ==
  LET i == owner[c]
  IN  /\ dupefilter_class = "redis"
      /\ pc[c] = "scan"
      /\ key \in todo[c] \cup Matching(i, redis_keys)
      /\ redis_keys' = redis_keys \ {key}
      /\ todo' = [todo EXCEPT ![c] = @ \ {key}]
      /\ grants' = [grants EXCEPT ![FpOfKey(i, key)] = 0]
      /\ claimant' = [claimant EXCEPT ![FpOfKey(i, key)] = 0]
      /\ last' = NoCall
      /\ UNCHANGED << calls, errs, cleared, raced, timed_out, config, qdrantVars, status, pc, arg, sqliteVars,
                      fileVars >>

\* Mutant: the loop of clear() stops before the scan is exhausted.
RedisClearDoneEarly(c) ==
  /\ dupefilter_class = "redis"
  /\ pc[c] = "scan"
  /\ pc' = [pc EXCEPT ![c] = "idle"]
  /\ todo' = [todo EXCEPT ![c] = {}]
  /\ Silent
  /\ UNCHANGED << config, qdrantVars, status, arg, redisVars, sqliteVars, fileVars >>

\* clear(): the scan is exhausted.
RedisClearDone(c) ==
  /\ dupefilter_class = "redis"
  /\ pc[c] = "scan"
  /\ todo[c] = {}
  /\ pc' = [pc EXCEPT ![c] = "idle"]
  /\ Silent
  /\ UNCHANGED << config, qdrantVars, status, arg, todo, redisVars, sqliteVars, fileVars >>

----------------------------------------------------------------------------
(* SQLiteBasedDupeFilter *)

\* The INSERT needs the database's write lock; it has it when no other
\* connection holds it.
LockFree(i) == write_lock \in {0, i}

\* The table as connection i reads it once it holds the write lock.
View(i) == IF write_lock = i THEN wal ELSE seen_urls

\* Mutant: the column is no primary key.
primary_key_absent(table, fp) == FALSE

\* fingerprint TEXT PRIMARY KEY
primary_key_violated(table, fp) == fp \in table

\* Mutant: except sqlite3.Error
caught_any(exc) == exc \in {"IntegrityError", "OperationalError"}

\* Mutant: the except clause names another exception.
caught_none(exc) == FALSE

\* except sqlite3.IntegrityError
caught(exc) == exc = "IntegrityError"

\* The exception exc leaves conn.execute inside request_seen's try block.
Raises(c, fp, exc, fault) ==
  Completes(c, fp, IF caught(exc) THEN "True" ELSE exc, fault)

SqliteOpen(i) ==
  /\ dupefilter_class = "sqlite"
  /\ i \in Instances
  /\ status[i] = "new"
  /\ status' = [status EXCEPT ![i] = "open"]
  /\ Silent
  /\ UNCHANGED << config, qdrantVars, pc, arg, todo, redisVars, sqliteVars, fileVars >>

\* conn.close(): an open transaction is rolled back and its lock released.
SqliteClose(i) ==
  /\ dupefilter_class = "sqlite"
  /\ i \in Instances
  /\ status[i] = "open"
  /\ Idle(i)
  /\ status' = [status EXCEPT ![i] = "closed"]
  /\ write_lock' = IF write_lock = i THEN 0 ELSE write_lock
  /\ wal' = IF write_lock = i THEN seen_urls ELSE wal
  /\ in_transaction' = [in_transaction EXCEPT ![i] = FALSE]
  /\ overdue' = IF write_lock = i THEN FALSE ELSE overdue
  /\ Silent
  /\ UNCHANGED << config, qdrantVars, pc, arg, todo, redisVars, seen_urls, fileVars >>

\* request_seen, conn.execute(INSERT): the implicit BEGIN DEFERRED of
\* isolation_level='DEFERRED', then the statement takes the write lock and
\* inserts the row or fails on the primary key.  The statement's failure ends
\* neither the transaction nor its lock.
SqliteInsert(c, request) ==
  LET i == owner[c]
      fp == get_request_fingerprint(request)
  IN  /\ dupefilter_class = "sqlite"
      /\ c \in workers
      /\ status[i] = "open"
      /\ pc[c] = "idle"
      /\ LockFree(i)
      /\ in_transaction' = [in_transaction EXCEPT ![i] = TRUE]
      /\ write_lock' = i
      /\ IF primary_key_violated(View(i), fp)
         THEN /\ wal' = View(i)
              /\ Raises(c, fp, "IntegrityError", "none")
              /\ UNCHANGED << pc, arg >>
         ELSE /\ wal' = View(i) \cup {fp}
              /\ pc' = [pc EXCEPT ![c] = "commit"]
              /\ arg' = [arg EXCEPT ![c] = fp]
              /\ Silent
      /\ UNCHANGED << config, qdrantVars, status, todo, redisVars, seen_urls, overdue, fileVars >>

\* Mutant: the call that times out on the lock leaves its row behind.
SqliteInsertLockedKeepsRow(c, request) ==
  LET i == owner[c]
      fp == get_request_fingerprint(request)
  IN  /\ dupefilter_class = "sqlite"
      /\ c \in workers
      /\ status[i] = "open"
      /\ pc[c] = "idle"
      /\ ~LockFree(i)
      /\ in_transaction' = [in_transaction EXCEPT ![i] = TRUE]
      /\ seen_urls' = seen_urls \cup {fp}
      /\ Raises(c, fp, "OperationalError", "locked")
      /\ UNCHANGED << config, qdrantVars, status, pc, arg, todo, redisVars, wal, write_lock, overdue,
                      fileVars >>

\* request_seen, conn.execute(INSERT) while another connection keeps the
\* write lock for the whole busy timeout: "database is locked".
SqliteInsertLocked(c, request) ==
  LET i == owner[c]
      fp == get_request_fingerprint(request)
  IN  /\ dupefilter_class = "sqlite"
      /\ c \in workers
      /\ status[i] = "open"
      /\ pc[c] = "idle"
      /\ ~LockFree(i)
      /\ in_transaction' = [in_transaction EXCEPT ![i] = TRUE]
      /\ Raises(c, fp, "OperationalError", "locked")
      /\ UNCHANGED << config, qdrantVars, status, pc, arg, todo, redisVars, seen_urls, wal,
                      write_lock, overdue, fileVars >>

\* request_seen, conn.commit() and return False.
SqliteCommit(c) ==
  LET i == owner[c]
  IN  /\ dupefilter_class = "sqlite"
      /\ pc[c] = "commit"
      /\ seen_urls' = wal
      /\ write_lock' = 0
      /\ in_transaction' = [in_transaction EXCEPT ![i] = FALSE]
      /\ pc' = [pc EXCEPT ![c] = "idle"]
      /\ arg' = [arg EXCEPT ![c] = Nil]
      /\ overdue' = FALSE
      /\ Completes(c, arg[c], "False", "none")
      /\ UNCHANGED << config, qdrantVars, status, todo, redisVars, wal, fileVars >>

\* clear(), conn.execute('DELETE FROM seen_urls')
SqliteClearDelete(c) ==
  LET i == owner[c]
  IN  /\ dupefilter_class = "sqlite"
      /\ c \in workers
      /\ status[i] = "open"
      /\ pc[c] = "idle"
      /\ LockFree(i)
      /\ in_transaction' = [in_transaction EXCEPT ![i] = TRUE]
      /\ write_lock' = i
      /\ wal' = {}
      /\ pc' = [pc EXCEPT ![c] = "clear_commit"]
      /\ Silent
      /\ UNCHANGED << config, qdrantVars, status, arg, todo, redisVars, seen_urls, overdue, fileVars >>

\* clear(), the DELETE times out on the write lock and clear() raises.
SqliteClearLocked(c) ==
  LET i == owner[c]
  IN  /\ dupefilter_class = "sqlite"
      /\ c \in workers
      /\ status[i] = "open"
      /\ pc[c] = "idle"
      /\ ~LockFree(i)
      /\ in_transaction' = [in_transaction EXCEPT ![i] = TRUE]
      /\ Silent
      /\ UNCHANGED << config, qdrantVars, status, pc, arg, todo, redisVars, seen_urls, wal,
                      write_lock, overdue, fileVars >>

\* clear(), conn.commit()
SqliteClearCommit(c) ==
  LET i == owner[c]
  IN  /\ dupefilter_class = "sqlite"
      /\ pc[c] = "clear_commit"
      /\ seen_urls' = wal
      /\ write_lock' = 0
      /\ in_transaction' = [in_transaction EXCEPT ![i] = FALSE]
      /\ pc' = [pc EXCEPT ![c] = "idle"]
      /\ overdue' = FALSE
      /\ ClearCompletes
      /\ UNCHANGED << config, qdrantVars, status, arg, todo, redisVars, wal, fileVars >>

----------------------------------------------------------------------------
(* FileBasedDupeFilter *)

Lines == IF file = NoFile THEN <<>> ELSE file

\* Mutant: the fingerprint is not put into the in-memory set.
add_forgotten(set, fp) == set

\* Mutant: the in-memory set is replaced by the fingerprint.
add_only(set, fp) == {fp}

\* self.seen_fingerprints.add(fp)
add(set, fp) == set \cup {fp}

\* Mutant: open() does not read the file.
FileOpenNoLoad(i) ==
  /\ dupefilter_class = "file"
  /\ i \in Instances
  /\ status[i] = "new"
  /\ status' = [status EXCEPT ![i] = "open"]
  /\ Silent
  /\ UNCHANGED << config, qdrantVars, pc, arg, todo, redisVars, sqliteVars, fileVars >>

\* Mutant: open() opens the file for writing and so truncates it.
FileOpenTruncates(i) ==
  /\ dupefilter_class = "file"
  /\ i \in Instances
  /\ status[i] = "new"
  /\ status' = [status EXCEPT ![i] = "open"]
  /\ file' = <<>>
  /\ seen_fingerprints' = [seen_fingerprints EXCEPT ![i] = {}]
  /\ Silent
  /\ UNCHANGED << config, qdrantVars, pc, arg, todo, redisVars, sqliteVars >>

\* open(): the file, when it exists, replaces the in-memory set.
FileOpen(i) ==
  /\ dupefilter_class = "file"
  /\ i \in Instances
  /\ status[i] = "new"
  /\ status' = [status EXCEPT ![i] = "open"]
  /\ seen_fingerprints' =
       IF file # NoFile THEN [seen_fingerprints EXCEPT ![i] = Range(file)]
       ELSE seen_fingerprints
  /\ Silent
  /\ UNCHANGED << config, qdrantVars, pc, arg, todo, redisVars, sqliteVars, file >>

\* Mutant: close() truncates the file and writes nothing.
FileCloseTruncates(i) ==
  /\ dupefilter_class = "file"
  /\ i \in Instances
  /\ status[i] = "open"
  /\ Idle(i)
  /\ status' = [status EXCEPT ![i] = "closed"]
  /\ file' = <<>>
  /\ Silent
  /\ UNCHANGED << config, qdrantVars, pc, arg, todo, redisVars, sqliteVars, seen_fingerprints >>

\* close(): the file is rewritten from the in-memory set, sorted.
FileClose(i) ==
  /\ dupefilter_class = "file"
  /\ i \in Instances
  /\ status[i] = "open"
  /\ Idle(i)
  /\ status' = [status EXCEPT ![i] = "closed"]
  /\ file' = sorted(seen_fingerprints[i])
  /\ Silent
  /\ UNCHANGED << config, qdrantVars, pc, arg, todo, redisVars, sqliteVars, seen_fingerprints >>

\* A worker with one thread of control: nothing else reads or writes its
\* in-memory set while a call of it runs.
SingleThreaded(i) == Cardinality(CallersOf(i)) = 1

\* Mutant: the fingerprint is kept in memory only, the file is written at
\* close().
FileRequestSeenNoAppend(c, request) ==
  LET i == owner[c]
      fp == get_request_fingerprint(request)
  IN  /\ dupefilter_class = "file"
      /\ c \in workers
      /\ SingleThreaded(i)
      /\ status[i] = "open"
      /\ pc[c] = "idle"
      /\ IF fp \in seen_fingerprints[i]
         THEN /\ Completes(c, fp, "True", "none")
              /\ UNCHANGED fileVars
         ELSE /\ seen_fingerprints' = [seen_fingerprints EXCEPT ![i] = add(@, fp)]
              /\ file' = file
              /\ Completes(c, fp, "False", "none")
      /\ UNCHANGED << config, qdrantVars, status, pc, arg, todo, redisVars, sqliteVars >>

\* request_seen of a single-threaded worker: the membership test, then
\* seen_fingerprints.add(fp), the append to the file, return False.
FileRequestSeen(c, request) ==
  LET i == owner[c]
      fp == get_request_fingerprint(request)
  IN  /\ dupefilter_class = "file"
      /\ c \in workers
      /\ SingleThreaded(i)
      /\ status[i] = "open"
      /\ pc[c] = "idle"
      /\ IF fp \in seen_fingerprints[i]
         THEN /\ Completes(c, fp, "True", "none")
              /\ UNCHANGED fileVars
         ELSE /\ seen_fingerprints' = [seen_fingerprints EXCEPT ![i] = add(@, fp)]
              /\ file' = Append(Lines, fp)
              /\ Completes(c, fp, "False", "none")
      /\ UNCHANGED << config, qdrantVars, status, pc, arg, todo, redisVars, sqliteVars >>

\* request_seen of a single-threaded worker when the append raises OSError:
\* the fingerprint was added to the in-memory set before.
FileRequestSeenAppendFails(c, request) ==
  LET i == owner[c]
      fp == get_request_fingerprint(request)
  IN  /\ dupefilter_class = "file"
      /\ c \in workers
      /\ SingleThreaded(i)
      /\ status[i] = "open"
      /\ pc[c] = "idle"
      /\ fp \notin seen_fingerprints[i]
      /\ seen_fingerprints' = [seen_fingerprints EXCEPT ![i] = add(@, fp)]
      /\ Completes(c, fp, "OSError", "io")
      /\ UNCHANGED << config, qdrantVars, status, pc, arg, todo, redisVars, sqliteVars, file >>

\* request_seen of one thread among several of a worker, the membership test
\* "if fp in self.seen_fingerprints": another thread may run before the add.
FileTest(c, request) ==
  LET i == owner[c]
      fp == get_request_fingerprint(request)
  IN  /\ dupefilter_class = "file"
      /\ c \in workers
      /\ ~SingleThreaded(i)
      /\ status[i] = "open"
      /\ pc[c] = "idle"
      /\ IF fp \in seen_fingerprints[i]
         THEN /\ Completes(c, fp, "True", "none")
              /\ UNCHANGED << pc, arg >>
         ELSE /\ pc' = [pc EXCEPT ![c] = "tested"]
              /\ arg' = [arg EXCEPT ![c] = fp]
              /\ Silent
      /\ UNCHANGED << config, qdrantVars, status, todo, redisVars, sqliteVars, fileVars >>

\* request_seen after the test: seen_fingerprints.add(fp), the append to the
\* file, return False.
FileAddAppend(c) ==
  LET i == owner[c]
      fp == arg[c]
  IN  /\ dupefilter_class = "file"
      /\ pc[c] = "tested"
      /\ seen_fingerprints' = [seen_fingerprints EXCEPT ![i] = add(@, fp)]
      /\ file' = Append(Lines, fp)
      /\ pc' = [pc EXCEPT ![c] = "idle"]
      /\ arg' = [arg EXCEPT ![c] = Nil]
      /\ Completes(c, fp, "False", "none")
      /\ UNCHANGED << config, qdrantVars, status, todo, redisVars, sqliteVars >>

\* request_seen after the test: seen_fingerprints.add(fp), then the append
\* raises OSError.
FileAppendFails(c) ==
  LET i == owner[c]
      fp == arg[c]
  IN  /\ dupefilter_class = "file"
      /\ pc[c] = "tested"
      /\ seen_fingerprints' = [seen_fingerprints EXCEPT ![i] = add(@, fp)]
      /\ pc' = [pc EXCEPT ![c] = "idle"]
      /\ arg' = [arg EXCEPT ![c] = Nil]
      /\ Completes(c, fp, "OSError", "io")
      /\ UNCHANGED << config, qdrantVars, status, todo, redisVars, sqliteVars, file >>

\* Mutant: clear() unlinks the file and keeps the in-memory set.
FileClearKeepsSet(c) ==
  LET i == owner[c]
  IN  /\ dupefilter_class = "file"
      /\ c \in workers
      /\ status[i] = "open"
      /\ pc[c] = "idle"
      /\ file' = NoFile
      /\ ClearCompletes
      /\ UNCHANGED << config, qdrantVars, status, pc, arg, todo, redisVars, sqliteVars, seen_fingerprints >>

\* clear(): empty the in-memory set and unlink the file.
FileClear(c) ==
  LET i == owner[c]
  IN  /\ dupefilter_class = "file"
      /\ c \in workers
      /\ status[i] = "open"
      /\ pc[c] = "idle"
      /\ seen_fingerprints' = [seen_fingerprints EXCEPT ![i] = {}]
      /\ file' = NoFile
      /\ ClearCompletes
      /\ UNCHANGED << config, qdrantVars, status, pc, arg, todo, redisVars, sqliteVars >>

----------------------------------------------------------------------------
(* A process ends and a later one constructs a fresh filter (__init__). *)


New(i) ==
  /\ i \in Instances
  /\ status[i] = "closed"
  /\ status' = [status EXCEPT ![i] = "new"]
  /\ seen_fingerprints' = [seen_fingerprints EXCEPT ![i] = {}]
  /\ claimant' = [fp \in Fingerprints |-> IF claimant[fp] \in CallersOf(i) THEN 0 ELSE claimant[fp]]
  /\ last' = NoCall
  /\ UNCHANGED << grants, calls, errs, cleared, raced, timed_out, config, qdrantVars, pc, arg, todo, redisVars, sqliteVars,
                  file >>

----------------------------------------------------------------------------

\* Values of the DUPEFILTER_CLASS setting: the three names, a missing entry
\* and a name the mapping does not know.
ConfigValues == {"redis", "sqlite", "file", Nil, "mongodb"}

\* Mutant: an unknown name falls back to the flat file.
dupefilter_mapping_file(value) ==
  IF value \in {"redis", "sqlite", "file"} THEN value ELSE "file"

\* config_settings.get('DUPEFILTER_CLASS', 'redis'), then
\* dupefilter_mapping.get(dupefilter_class, dupefilter_mapping['redis']): the
\* filter class is named here by its key of the mapping.
dupefilter_mapping(value) ==
  LET name == IF value = Nil THEN "redis" ELSE value
  IN  IF name \in {"redis", "sqlite", "file"} THEN name ELSE "redis"

\* Only the Flat-File backend is called by several threads of one worker;
\* the workers of the other backends each have their own client.
Owners(class, ws) ==
  { o \in [Callers -> Callers] :
      /\ \A c \in Callers \ ws : o[c] = c
      /\ \A c \in ws : o[c] <= c /\ o[o[c]] = o[c]
      /\ class # "file" => \A c \in ws : o[c] = c }

\* The state after the crawlers were configured and their filters constructed.
Constructed ==
  /\ DUPEFILTER_CLASS \in ConfigValues
  /\ dupefilter_class = dupefilter_mapping(DUPEFILTER_CLASS)
  /\ workers \in { 1 .. n : n \in 1 .. MaxCallers }
  /\ owner \in Owners(dupefilter_class, workers)
  /\ status = [i \in Callers |-> "new"]
  /\ pc = [c \in Callers |-> "idle"]
  /\ arg = [c \in Callers |-> Nil]
  /\ todo = [c \in Callers |-> {}]
  /\ redis_keys = {}
  /\ seen_urls = {}
  /\ wal = {}
  /\ write_lock = 0
  /\ in_transaction = [i \in Callers |-> FALSE]
  /\ overdue = FALSE
  /\ timed_out = [c \in Callers |-> Nil]
  /\ file = NoFile
  /\ seen_fingerprints = [i \in Callers |-> {}]
  /\ grants = [fp \in Fingerprints |-> 0]
  /\ claimant = [fp \in Fingerprints |-> 0]
  /\ calls = [fp \in Fingerprints |-> 0]
  /\ errs = {}
  /\ cleared = {}
  /\ raced = [fp \in Fingerprints |-> "no"]
  /\ fingerprints = [i \in Callers |-> {}]
  /\ points = {}
  /\ falses = [i \in Callers |-> [url \in Urls |-> 0]]
  /\ failed = [i \in Callers |-> {}]
  /\ last = NoCall

\* Every crawler has the default key prefix.
Init ==
  /\ DUPEFILTER_KEY_PREFIX = [i \in Callers |-> DefaultKeyPrefix]
  /\ Constructed

Next ==
  \/ \E i \in Callers : RedisOpen(i)
  \/ \E i \in Callers : RedisClose(i)
  \/ \E c \in Callers, r \in Requests : RedisRequestSeen(c, r)
  \/ \E c \in Callers, r \in Requests : RedisRequestSeenUnreachable(c, r)
  \/ \E c \in Callers : RedisClearScan(c)
  \/ \E c \in Callers : \E k \in redis_keys \cup todo[c] : RedisClearDelete(c, k)
  \/ \E c \in Callers : RedisClearDone(c)
  \/ \E i \in Callers : SqliteOpen(i)
  \/ \E i \in Callers : SqliteClose(i)
  \/ \E c \in Callers, r \in Requests : SqliteInsert(c, r)
  \/ \E c \in Callers, r \in Requests : SqliteInsertLocked(c, r)
  \/ \E c \in Callers : SqliteCommit(c)
  \/ \E c \in Callers : SqliteClearDelete(c)
  \/ \E c \in Callers : SqliteClearLocked(c)
  \/ \E c \in Callers : SqliteClearCommit(c)
  \/ \E i \in Callers : FileOpen(i)
  \/ \E i \in Callers : FileClose(i)
  \/ \E c \in Callers, r \in Requests : FileRequestSeen(c, r)
  \/ \E c \in Callers, r \in Requests : FileRequestSeenAppendFails(c, r)
  \/ \E c \in Callers, r \in Requests : FileTest(c, r)
  \/ \E c \in Callers : FileAddAppend(c)
  \/ \E c \in Callers : FileAppendFails(c)
  \/ \E c \in Callers : FileClear(c)
  \/ \E i \in Callers : New(i)

Spec == Init /\ [][Next]_vars

----------------------------------------------------------------------------
(* Calls outside the lifecycle open() ... close(): close() of a filter whose
   open() never ran or raised, and open() of a filter that is open. *)

\* Connections (Redis client, sqlite3 connection) of instance i that are open.
\* The flat file is opened and closed inside each call.
handles(i) ==
  CASE dupefilter_class = "file" -> 0
    [] status[i] \in {"open", "partial"} -> 1
    [] status[i] = "reopened" -> 2
    [] OTHER -> 0

\* open() raises before the handle is assigned (mkdir, from_url or connect
\* fails, the flat file cannot be read): the attributes are those of __init__.
OpenFails(i) ==
  /\ i \in Instances
  /\ status[i] = "new"
  /\ status' = [status EXCEPT ![i] = "failed"]
  /\ Silent
  /\ UNCHANGED << config, qdrantVars, pc, arg, todo, redisVars, sqliteVars, fileVars >>

\* SQLite open() raises after sqlite3.connect returned (a PRAGMA or the
\* CREATE TABLE fails): self.conn is an open connection.
SqliteOpenFailsPartWay(i) ==
  /\ dupefilter_class = "sqlite"
  /\ i \in Instances
  /\ status[i] = "new"
  /\ status' = [status EXCEPT ![i] = "partial"]
  /\ Silent
  /\ UNCHANGED << config, qdrantVars, pc, arg, todo, redisVars, sqliteVars, fileVars >>

\* Redis close() with redis_client None: nothing to do.
RedisCloseUnopened(i) ==
  /\ dupefilter_class = "redis"
  /\ i \in Instances
  /\ status[i] \in {"new", "failed"}
  /\ status' = [status EXCEPT ![i] = "closed"]
  /\ Silent
  /\ UNCHANGED << config, qdrantVars, pc, arg, todo, redisVars, sqliteVars, fileVars >>

\* SQLite close() with conn None, or with the connection of an open() that
\* raised part-way (no transaction was begun on it).
SqliteCloseUnopened(i) ==
  /\ dupefilter_class = "sqlite"
  /\ i \in Instances
  /\ status[i] \in {"new", "failed", "partial"}
  /\ status' = [status EXCEPT ![i] = "closed"]
  /\ Silent
  /\ UNCHANGED << config, qdrantVars, pc, arg, todo, redisVars, sqliteVars, fileVars >>

\* Flat-file close() of a filter whose open() did not load the file: the file
\* is rewritten from the in-memory set of __init__.
FileCloseUnopened(i) ==
  /\ dupefilter_class = "file"
  /\ i \in Instances
  /\ status[i] \in {"new", "failed"}
  /\ Idle(i)
  /\ status' = [status EXCEPT ![i] = "closed"]
  /\ file' = sorted(seen_fingerprints[i])
  /\ Silent
  /\ UNCHANGED << config, qdrantVars, pc, arg, todo, redisVars, sqliteVars, seen_fingerprints >>

\* Redis open() of an open filter: self.redis_client is replaced, the earlier
\* client is not closed by open(); it is closed when the interpreter
\* finalises it, at once or later.
RedisReopen(i) ==
  /\ dupefilter_class = "redis"
  /\ i \in Instances
  /\ status[i] = "open"
  /\ Idle(i)
  /\ status' \in { [status EXCEPT ![i] = t] : t \in {"open", "reopened"} }
  /\ Silent
  /\ UNCHANGED << config, qdrantVars, pc, arg, todo, redisVars, sqliteVars, fileVars >>

\* SQLite open() of an open filter: self.conn is replaced, the earlier
\* connection is not closed by open().  It stays open, with its transaction
\* and its lock, until the interpreter finalises it (the connection is part
\* of a reference cycle with its statement cache).
SqliteReopen(i) ==
  /\ dupefilter_class = "sqlite"
  /\ i \in Instances
  /\ status[i] = "open"
  /\ Idle(i)
  /\ \/ /\ status' = [status EXCEPT ![i] = "reopened"]
        /\ UNCHANGED sqliteVars
     \/ /\ status' = status
        /\ write_lock' = IF write_lock = i THEN 0 ELSE write_lock
        /\ wal' = IF write_lock = i THEN seen_urls ELSE wal
        /\ overdue' = IF write_lock = i THEN FALSE ELSE overdue
        /\ in_transaction' = [in_transaction EXCEPT ![i] = FALSE]
        /\ UNCHANGED seen_urls
  /\ Silent
  /\ UNCHANGED << config, qdrantVars, pc, arg, todo, redisVars, fileVars >>

\* Flat-file open() of an open filter: the file replaces the in-memory set.
FileReopen(i) ==
  /\ dupefilter_class = "file"
  /\ i \in Instances
  /\ status[i] = "open"
  /\ Idle(i)
  /\ seen_fingerprints' =
       IF file # NoFile THEN [seen_fingerprints EXCEPT ![i] = Range(file)]
       ELSE seen_fingerprints
  /\ Silent
  /\ UNCHANGED << config, qdrantVars, status, pc, arg, todo, redisVars, sqliteVars, file >>

\* The interpreter finalises the connection an open() replaced: it is closed,
\* its transaction rolled back and its lock released.
Finalized(i) ==
  /\ i \in Instances
  /\ status[i] = "reopened"
  /\ status' = [status EXCEPT ![i] = "open"]
  /\ write_lock' = IF write_lock = i THEN 0 ELSE write_lock
  /\ wal' = IF write_lock = i THEN seen_urls ELSE wal
  /\ overdue' = IF write_lock = i THEN FALSE ELSE overdue
  /\ in_transaction' = [in_transaction EXCEPT ![i] = FALSE]
  /\ Silent
  /\ UNCHANGED << config, qdrantVars, pc, arg, todo, redisVars, seen_urls, fileVars >>

LifecycleNext ==
  \/ Next
  \/ \E i \in Callers : OpenFails(i)
  \/ \E i \in Callers : SqliteOpenFailsPartWay(i)
  \/ \E i \in Callers : RedisCloseUnopened(i)
  \/ \E i \in Callers : SqliteCloseUnopened(i)
  \/ \E i \in Callers : FileCloseUnopened(i)
  \/ \E i \in Callers : RedisReopen(i)
  \/ \E i \in Callers : SqliteReopen(i)
  \/ \E i \in Callers : FileReopen(i)
  \/ \E i \in Callers : Finalized(i)

\* The filters driven by any caller, in or out of the lifecycle.
LifecycleSpec == Init /\ [][LifecycleNext]_vars

----------------------------------------------------------------------------
(* The entry points: add_pages_to_db.main (clear_redis(), then the crawl) and
   run_both_crawlers.run_crawler (the crawl).  Each caller is one process. *)

\* clear_redis(): the scan of "scrapy:dupefilter:*" starts, on a client of
\* its own, before the process has built its crawler.
ClearRedisScan(c) ==
  LET i == owner[c]
  IN  /\ dupefilter_class = "redis"
      /\ c \in workers
      /\ status[i] = "new"
      /\ pc[c] = "idle"
      /\ pc' = [pc EXCEPT ![c] = "scan"]
      /\ todo' = [todo EXCEPT ![c] = Matching(i, redis_keys)]
      /\ ClearStarts
      /\ UNCHANGED << grants, claimant, config, qdrantVars, status, arg, redisVars, sqliteVars, fileVars >>

\* The runs of the entry points against one Redis store; the loop of
\* clear_redis is the loop of clear().
EntryPointsNext ==
  \/ \E c \in Callers : ClearRedisScan(c)
  \/ \E c \in Callers : \E k \in redis_keys \cup todo[c] : RedisClearDelete(c, k)
  \/ \E c \in Callers : RedisClearDone(c)
  \/ \E i \in Callers : RedisOpen(i)
  \/ \E c \in Callers, r \in Requests : RedisRequestSeen(c, r)
  \/ \E c \in Callers, r \in Requests : RedisRequestSeenUnreachable(c, r)
  \/ \E i \in Callers : RedisClose(i)
  \/ \E i \in Callers : New(i)

EntryPointsInit == Init /\ dupefilter_class = "redis"

EntryPointsSpec == EntryPointsInit /\ [][EntryPointsNext]_vars

----------------------------------------------------------------------------
(* Calls that wait: request_seen of the Redis and SQLite filters with the
   wait for the server's reply and for the write lock made explicit. *)

\* Redis request_seen: the SET command is sent; the client was built by
\* redis.from_url(url, decode_responses=True), with no socket timeout.
RedisSend(c, request) ==
  LET i == owner[c]
      fp == get_request_fingerprint(request)
  IN  /\ dupefilter_class = "redis"
      /\ c \in workers
      /\ status[i] = "open"
      /\ pc[c] = "idle"
      /\ pc' = [pc EXCEPT ![c] = "sent"]
      /\ arg' = [arg EXCEPT ![c] = fp]
      /\ Silent
      /\ UNCHANGED << config, qdrantVars, status, todo, redisVars, sqliteVars, fileVars >>

\* The server executes the SET NX and its reply arrives.
RedisReply(c) ==
  LET i == owner[c]
      fp == arg[c]
      key == KeyOf(i, fp)
      added == set_nx(redis_keys, key)
  IN  /\ dupefilter_class = "redis"
      /\ pc[c] = "sent"
      /\ redis_keys' = IF added THEN redis_keys \cup {key} ELSE redis_keys
      /\ pc' = [pc EXCEPT ![c] = "idle"]
      /\ arg' = [arg EXCEPT ![c] = Nil]
      /\ Completes(c, fp, IF ~added THEN "True" ELSE "False", "none")
      /\ UNCHANGED << config, qdrantVars, status, todo, sqliteVars, fileVars >>

\* The connection is refused or reset: the command raises ConnectionError.
RedisRefused(c) ==
  /\ dupefilter_class = "redis"
  /\ pc[c] = "sent"
  /\ pc' = [pc EXCEPT ![c] = "idle"]
  /\ arg' = [arg EXCEPT ![c] = Nil]
  /\ Completes(c, arg[c], "ConnectionError", "unreachable")
  /\ UNCHANGED << config, qdrantVars, status, todo, redisVars, sqliteVars, fileVars >>

\* SQLite request_seen: conn.execute(INSERT) is called.
SqliteCall(c, request) ==
  LET i == owner[c]
      fp == get_request_fingerprint(request)
  IN  /\ dupefilter_class = "sqlite"
      /\ c \in workers
      /\ status[i] = "open"
      /\ pc[c] = "idle"
      /\ pc' = [pc EXCEPT ![c] = "execute"]
      /\ arg' = [arg EXCEPT ![c] = fp]
      /\ Silent
      /\ UNCHANGED << config, qdrantVars, status, todo, redisVars, sqliteVars, fileVars >>

\* The INSERT has the write lock (at once, or when the busy handler finds it
\* free): the row is inserted, or the primary key fails.
SqliteExecute(c) ==
  LET i == owner[c]
      fp == arg[c]
  IN  /\ dupefilter_class = "sqlite"
      /\ pc[c] = "execute"
      /\ LockFree(i)
      /\ in_transaction' = [in_transaction EXCEPT ![i] = TRUE]
      /\ write_lock' = i
      /\ IF primary_key_violated(View(i), fp)
         THEN /\ wal' = View(i)
              /\ pc' = [pc EXCEPT ![c] = "idle"]
              /\ arg' = [arg EXCEPT ![c] = Nil]
              /\ Raises(c, fp, "IntegrityError", "none")
         ELSE /\ wal' = View(i) \cup {fp}
              /\ pc' = [pc EXCEPT ![c] = "commit"]
              /\ arg' = arg
              /\ Silent
      /\ UNCHANGED << config, qdrantVars, status, todo, redisVars, seen_urls, overdue, fileVars >>

\* The write lock has now been kept for longer than the lock wait.
LockWaitElapses ==
  /\ dupefilter_class = "sqlite"
  /\ write_lock # 0
  /\ ~overdue
  /\ overdue' = TRUE
  /\ Silent
  /\ UNCHANGED << config, qdrantVars, status, pc, arg, todo, redisVars, seen_urls, wal, write_lock,
                  in_transaction, fileVars >>

\* Mutant: timeout=0, the INSERT raises as soon as it finds the lock taken.
SqliteBusyTimeoutAtOnce(c) ==
  LET i == owner[c]
  IN  /\ dupefilter_class = "sqlite"
      /\ pc[c] = "execute"
      /\ ~LockFree(i)
      /\ in_transaction' = [in_transaction EXCEPT ![i] = TRUE]
      /\ pc' = [pc EXCEPT ![c] = "idle"]
      /\ arg' = [arg EXCEPT ![c] = Nil]
      /\ Raises(c, arg[c], "OperationalError", "locked")
      /\ UNCHANGED << config, qdrantVars, status, todo, redisVars, seen_urls, wal, write_lock, overdue,
                      fileVars >>

\* The busy handler gives up (timeout=30.0): another connection kept the
\* write lock for the whole wait, "database is locked" is raised.
SqliteBusyTimeout(c) ==
  LET i == owner[c]
  IN  /\ dupefilter_class = "sqlite"
      /\ pc[c] = "execute"
      /\ ~LockFree(i)
      /\ overdue
      /\ in_transaction' = [in_transaction EXCEPT ![i] = TRUE]
      /\ pc' = [pc EXCEPT ![c] = "idle"]
      /\ arg' = [arg EXCEPT ![c] = Nil]
      /\ Raises(c, arg[c], "OperationalError", "locked")
      /\ UNCHANGED << config, qdrantVars, status, todo, redisVars, seen_urls, wal, write_lock, overdue,
                      fileVars >>

WaitingNext ==
  \/ \E i \in Callers : RedisOpen(i)
  \/ \E i \in Callers : RedisClose(i)
  \/ \E c \in Callers, r \in Requests : RedisSend(c, r)
  \/ \E c \in Callers : RedisReply(c)
  \/ \E c \in Callers : RedisRefused(c)
  \/ \E i \in Callers : SqliteOpen(i)
  \/ \E i \in Callers : SqliteClose(i)
  \/ \E c \in Callers, r \in Requests : SqliteCall(c, r)
  \/ \E c \in Callers : SqliteExecute(c)
  \/ \E c \in Callers : SqliteBusyTimeout(c)
  \/ \E c \in Callers : SqliteCommit(c)
  \/ LockWaitElapses

WaitingInit == Init /\ dupefilter_class # "file"

\* A process that is inside a call runs on; time passes; the busy handler
\* finds the lock free if it is free again and again.  Nothing makes the
\* Redis server answer.
WaitingSpec ==
  /\ WaitingInit
  /\ [][WaitingNext]_vars
  /\ WF_vars(LockWaitElapses)
  /\ \A c \in Callers :
       /\ WF_vars(SqliteCommit(c))
       /\ WF_vars(SqliteBusyTimeout(c))
       /\ SF_vars(SqliteExecute(c))

----------------------------------------------------------------------------
(* A flat-file session that ends without close(): the process dies, inside a
   call or between calls, and a later process constructs a fresh filter. *)

Crash(i) ==
  /\ dupefilter_class = "file"
  /\ i \in Instances
  /\ status[i] = "open"
  /\ status' = [status EXCEPT ![i] = "new"]
  /\ pc' = [c \in Callers |-> IF c \in CallersOf(i) THEN "idle" ELSE pc[c]]
  /\ arg' = [c \in Callers |-> IF c \in CallersOf(i) THEN Nil ELSE arg[c]]
  /\ seen_fingerprints' = [seen_fingerprints EXCEPT ![i] = {}]
  /\ claimant' = [fp \in Fingerprints |-> IF claimant[fp] \in CallersOf(i) THEN 0 ELSE claimant[fp]]
  /\ last' = NoCall
  /\ UNCHANGED << grants, calls, errs, cleared, raced, timed_out, config, qdrantVars, todo, redisVars, sqliteVars, file >>

CrashNext ==
  \/ \E i \in Callers : FileOpen(i)
  \/ \E i \in Callers : FileClose(i)
  \/ \E c \in Callers, r \in Requests : FileRequestSeen(c, r)
  \/ \E c \in Callers, r \in Requests : FileRequestSeenAppendFails(c, r)
  \/ \E c \in Callers, r \in Requests : FileTest(c, r)
  \/ \E c \in Callers : FileAddAppend(c)
  \/ \E c \in Callers : FileAppendFails(c)
  \/ \E c \in Callers : FileClear(c)
  \/ \E i \in Callers : New(i)
  \/ \E i \in Callers : Crash(i)

CrashInit == Init /\ dupefilter_class = "file"

\* The flat-file filters with sessions that end by close() or by a crash.
CrashSpec == CrashInit /\ [][CrashNext]_vars

----------------------------------------------------------------------------
(* One worker drives a filter of each class with the same operations: the
   Redis store, the SQLite database and the flat file each have this worker
   as their only user.  Each step is the same method of the three classes;
   last.out is the verdict they agree on, or "differ". *)

Agreed(outs) == IF Cardinality(outs) = 1 THEN CHOOSE o \in outs : TRUE ELSE "differ"

\* open() of the three filters.
AllOpen ==
  /\ status[1] = "new"
  /\ status' = [status EXCEPT ![1] = "open"]
  /\ seen_fingerprints' =
       IF file # NoFile THEN [seen_fingerprints EXCEPT ![1] = Range(file)]
       ELSE seen_fingerprints
  /\ Silent
  /\ UNCHANGED << config, qdrantVars, pc, arg, todo, redisVars, sqliteVars, file >>

\* request_seen(request) of the three filters.
AllRequestSeen(request) ==
  LET fp == get_request_fingerprint(request)
      key == KeyOf(1, fp)
      added == set_nx(redis_keys, key)
      violated == primary_key_violated(View(1), fp)
      member == fp \in seen_fingerprints[1]
      redis_out == IF ~added THEN "True" ELSE "False"
      sqlite_out == IF ~violated THEN "False"
                    ELSE IF caught("IntegrityError") THEN "True" ELSE "IntegrityError"
      file_out == IF member THEN "True" ELSE "False"
  IN  /\ status[1] = "open"
      /\ redis_keys' = IF added THEN redis_keys \cup {key} ELSE redis_keys
      /\ IF violated
         THEN /\ in_transaction' = [in_transaction EXCEPT ![1] = TRUE]
              /\ write_lock' = 1
              /\ wal' = View(1)
              /\ UNCHANGED << seen_urls, overdue >>
         ELSE /\ seen_urls' = View(1) \cup {fp}
              /\ wal' = View(1) \cup {fp}
              /\ write_lock' = 0
              /\ in_transaction' = [in_transaction EXCEPT ![1] = FALSE]
              /\ UNCHANGED overdue
      /\ IF member
         THEN UNCHANGED fileVars
         ELSE /\ seen_fingerprints' = [seen_fingerprints EXCEPT ![1] = add(@, fp)]
              /\ file' = Append(Lines, fp)
      /\ Completes(1, fp, Agreed({redis_out, sqlite_out, file_out}), "none")
      /\ UNCHANGED << config, qdrantVars, status, pc, arg, todo >>

\* clear() of the three filters.
AllClear ==
  /\ status[1] = "open"
  /\ redis_keys' = redis_keys \ Matching(1, redis_keys)
  /\ seen_urls' = {}
  /\ wal' = {}
  /\ write_lock' = 0
  /\ in_transaction' = [in_transaction EXCEPT ![1] = FALSE]
  /\ seen_fingerprints' = [seen_fingerprints EXCEPT ![1] = {}]
  /\ file' = NoFile
  /\ ClearCompletes
  /\ UNCHANGED << config, qdrantVars, status, pc, arg, todo, overdue >>

\* close() of the three filters.
AllClose ==
  /\ status[1] = "open"
  /\ status' = [status EXCEPT ![1] = "closed"]
  /\ write_lock' = 0
  /\ wal' = seen_urls
  /\ in_transaction' = [in_transaction EXCEPT ![1] = FALSE]
  /\ file' = sorted(seen_fingerprints[1])
  /\ Silent
  /\ UNCHANGED << config, qdrantVars, pc, arg, todo, redisVars, seen_urls, overdue, seen_fingerprints >>

EquivalenceNext ==
  \/ AllOpen
  \/ \E r \in Requests : AllRequestSeen(r)
  \/ AllClear
  \/ AllClose
  \/ New(1)

EquivalenceInit == Init /\ Solo /\ DUPEFILTER_CLASS = Nil

EquivalenceSpec == EquivalenceInit /\ [][EquivalenceNext]_vars

----------------------------------------------------------------------------
(* Crawlers with key prefixes of their own on one Redis store. *)

PrefixNext ==
  \/ \E i \in Callers : RedisOpen(i)
  \/ \E i \in Callers : RedisClose(i)
  \/ \E c \in Callers, r \in Requests : RedisRequestSeen(c, r)
  \/ \E c \in Callers : RedisClearScan(c)
  \/ \E c \in Callers : \E k \in redis_keys \cup todo[c] : RedisClearDelete(c, k)
  \/ \E c \in Callers : RedisClearDone(c)
  \/ \E i \in Callers : New(i)

PrefixInit ==
  /\ DUPEFILTER_KEY_PREFIX \in [Callers -> Prefixes]
  /\ Constructed
  /\ dupefilter_class = "redis"

PrefixSpec == PrefixInit /\ [][PrefixNext]_vars

----------------------------------------------------------------------------
(* QdrantDupeFilter (src/src/filters/qdrant_dupefilter.py): one crawler's
   filter and the Qdrant collection, to which the pipelines of this and of
   other crawlers write. *)

\* A request_seen of the Qdrant filter returns.
Answers(c, url, out, fault) ==
  /\ last' = [c |-> c, fp |-> url, out |-> out, fault |-> fault, retry |-> FALSE]
  /\ falses' = IF out = "False" THEN [falses EXCEPT ![owner[c]][url] = Bump(@)] ELSE falses
  /\ failed' = IF fault # "none" THEN [failed EXCEPT ![owner[c]] = @ \cup {url}] ELSE failed
  /\ UNCHANGED << history, timed_out >>

\* open() is the one inherited from BaseDupeFilter: it does nothing.
QdrantOpen(i) ==
  /\ i \in Instances
  /\ status[i] = "new"
  /\ status' = [status EXCEPT ![i] = "open"]
  /\ Silent
  /\ UNCHANGED << config, qdrantVars, pc, arg, todo, redisVars, sqliteVars, fileVars >>

\* close(): self.fingerprints.clear()
QdrantClose(i) ==
  /\ i \in Instances
  /\ status[i] = "open"
  /\ Idle(i)
  /\ status' = [status EXCEPT ![i] = "closed"]
  /\ fingerprints' = [fingerprints EXCEPT ![i] = {}]
  /\ falses' = [falses EXCEPT ![i] = [url \in Urls |-> 0]]
  /\ failed' = [failed EXCEPT ![i] = {}]
  /\ Silent
  /\ UNCHANGED << config, points, pc, arg, todo, redisVars, sqliteVars, fileVars >>

\* Mutant: a URL that has no point is not added to the session set.
QdrantRequestSeenNoCache(c, request) ==
  LET i == owner[c]
      url == request.url
      existing == IF url \in points THEN <<url>> ELSE <<>>
  IN  /\ c \in workers
      /\ status[i] = "open"
      /\ pc[c] = "idle"
      /\ IF url \in fingerprints[i]
         THEN /\ Answers(c, url, "True", "none")
              /\ UNCHANGED fingerprints
         ELSE IF existing # <<>>
         THEN /\ fingerprints' = [fingerprints EXCEPT ![i] = @ \cup {url}]
              /\ Answers(c, url, "True", "none")
         ELSE /\ UNCHANGED fingerprints
              /\ Answers(c, url, "False", "none")
      /\ UNCHANGED << config, points, status, pc, arg, todo, redisVars, sqliteVars, fileVars >>

\* request_seen when the query does not raise: the session set, then
\* client.scroll(... metadata.url = url, limit=1).
QdrantRequestSeen(c, request) ==
  LET i == owner[c]
      url == request.url
      existing == IF url \in points THEN <<url>> ELSE <<>>
  IN  /\ c \in workers
      /\ status[i] = "open"
      /\ pc[c] = "idle"
      /\ IF url \in fingerprints[i]
         THEN /\ Answers(c, url, "True", "none")
              /\ UNCHANGED fingerprints
         ELSE IF existing # <<>>
         THEN /\ fingerprints' = [fingerprints EXCEPT ![i] = @ \cup {url}]
              /\ Answers(c, url, "True", "none")
         ELSE /\ fingerprints' = [fingerprints EXCEPT ![i] = @ \cup {url}]
              /\ Answers(c, url, "False", "none")
      /\ UNCHANGED << config, points, status, pc, arg, todo, redisVars, sqliteVars, fileVars >>

\* Mutant: the URL is added to the session set before the query.
QdrantRequestSeenFailsCached(c, request) ==
  LET i == owner[c]
      url == request.url
  IN  /\ c \in workers
      /\ status[i] = "open"
      /\ pc[c] = "idle"
      /\ url \notin fingerprints[i]
      /\ fingerprints' = [fingerprints EXCEPT ![i] = @ \cup {url}]
      /\ Answers(c, url, "False", "qdrant")
      /\ UNCHANGED << config, points, status, pc, arg, todo, redisVars, sqliteVars, fileVars >>

\* request_seen when client.scroll raises: "except Exception", a warning is
\* printed and False returned.
QdrantRequestSeenFails(c, request) ==
  LET i == owner[c]
      url == request.url
  IN  /\ c \in workers
      /\ status[i] = "open"
      /\ pc[c] = "idle"
      /\ url \notin fingerprints[i]
      /\ Answers(c, url, "False", "qdrant")
      /\ UNCHANGED << config, fingerprints, points, status, pc, arg, todo, redisVars, sqliteVars,
                      fileVars >>

\* VectorDatabasePipeline.process_item of some crawler stores the chunks of a
\* page with metadata.url = url.
ProcessItem(url) ==
  /\ url \notin points
  /\ points' = points \cup {url}
  /\ Silent
  /\ UNCHANGED << config, fingerprints, falses, failed, status, pc, arg, todo, redisVars,
                  sqliteVars, fileVars >>

\* VectorDatabasePipeline.__init__ of a crawler that starts: recreate_collection.
RecreateCollection ==
  /\ points # {}
  /\ points' = {}
  /\ Silent
  /\ UNCHANGED << config, fingerprints, falses, failed, status, pc, arg, todo, redisVars,
                  sqliteVars, fileVars >>

QdrantNext ==
  \/ \E i \in Callers : QdrantOpen(i)
  \/ \E i \in Callers : QdrantClose(i)
  \/ \E c \in Callers, r \in Requests : QdrantRequestSeen(c, r)
  \/ \E c \in Callers, r \in Requests : QdrantRequestSeenFails(c, r)
  \/ \E url \in Urls : ProcessItem(url)
  \/ RecreateCollection
  \/ \E i \in Callers : New(i)

QdrantInit == Init /\ Solo /\ DUPEFILTER_CLASS = Nil

QdrantSpec == QdrantInit /\ [][QdrantNext]_vars

----------------------------------------------------------------------------
(* Properties *)

Returned == last # NoCall

Scanning == \E c \in workers : pc[c] = "scan"

\* The fingerprints the durable store holds.
Stored ==
  CASE dupefilter_class = "redis" ->
         { fp \in Fingerprints : \E i \in Instances : KeyOf(i, fp) \in redis_keys }
    [] dupefilter_class = "sqlite" -> seen_urls
    [] OTHER -> Range(Lines)

\* The Seen-Set request_seen of caller c consults.
Consulted(c) ==
  IF dupefilter_class = "file" THEN seen_fingerprints[owner[c]] ELSE Stored

\* C1: Redis backend: among the request_seen calls of any number of workers
\* for one fingerprint, the call that is told False is the only one (the
\* first since the key was last absent), and every other call that returns
\* is told True, in every interleaving.
RedisExactlyOneClaim ==
  dupefilter_class = "redis" =>
    /\ \A fp \in Fingerprints : grants[fp] <= 1
    /\ last.out = "False" => grants[last.fp] = 1 /\ claimant[last.fp] = last.c
    /\ last.out = "True" => grants[last.fp] = 1

\* C1 witness: with no clear running, a worker is told True for a fingerprint
\* that another worker, still open, was granted.
RedisSecondWorkerSeesTrue ==
  /\ dupefilter_class = "redis"
  /\ ~Scanning
  /\ last.out = "True"
  /\ claimant[last.fp] \in workers \ {last.c}
  /\ status[owner[claimant[last.fp]]] = "open"

\* C2: SQLite backend: no two request_seen calls of connections to one
\* database are told False for a fingerprint; the committed rows are exactly
\* the granted fingerprints, a call told True finds the row of the one call
\* that was told False.
SqliteExactlyOneClaim ==
  dupefilter_class = "sqlite" =>
    /\ \A fp \in Fingerprints : grants[fp] <= 1 /\ (fp \in seen_urls <=> grants[fp] = 1)
    /\ last.out = "False" => claimant[last.fp] = last.c
    /\ last.out = "True" => last.fp \in seen_urls

\* C2 witness: a connection is told True for the row another open connection
\* inserted.
SqliteSecondProcessSeesTrue ==
  /\ dupefilter_class = "sqlite"
  /\ last.out = "True"
  /\ claimant[last.fp] \in workers \ {last.c}
  /\ status[owner[claimant[last.fp]]] = "open"

\* C3: a single worker, every backend: in a sequence of request_seen calls
\* none of which raised for the fingerprint, a call returns True exactly when
\* an earlier call of the sequence carried the same fingerprint.
SingleWorkerVerdicts ==
  (Solo /\ Returned /\ last.out \in Verdicts /\ last.fp \notin errs) =>
    (last.out = "True" <=> calls[last.fp] = 2)

\* C3 witness: page1 -> False, page2 -> False, page1 again -> True.
SingleWorkerThirdCall ==
  /\ Solo
  /\ errs = {}
  /\ \A fp \in Fingerprints : grants[fp] = 1
  /\ last.out = "True"
  /\ last.fp = get_request_fingerprint([obj |-> 3, url |-> page1])
  /\ calls[last.fp] = 2

\* C4: a fingerprint granted by a filter that was closed afterwards, with no
\* clear since, is never granted again: request_seen of a fresh filter on the
\* same store is told True for it (Redis and SQLite with any workers, the
\* flat file used by one worker at a time).
PersistsAcrossRestart ==
  (dupefilter_class # "file" \/ Solo) =>
    \A fp \in Fingerprints :
      (grants[fp] >= 1 /\ claimant[fp] = 0) =>
        /\ grants[fp] = 1
        /\ (last.fp = fp /\ last.out \in Verdicts) => last.out = "True"

\* C4 witness: a fresh flat-file filter is told True for a fingerprint an
\* earlier, closed filter was granted.
FreshFilterSeesTrue ==
  /\ dupefilter_class = "file"
  /\ last.out = "True"
  /\ grants[last.fp] = 1
  /\ claimant[last.fp] = 0

\* C5: a single worker, every backend: after clear() the first request_seen
\* for a fingerprint that was claimed before the clear is told False (unless
\* it raises).
ClearResets ==
  Solo =>
    /\ (Returned /\ last.fp \in cleared /\ calls[last.fp] = 1 /\ last.out \in Verdicts)
         => last.out = "False"
    /\ \A fp \in cleared : (calls[fp] >= 1 /\ fp \notin errs) => grants[fp] = 1

\* C5 witness: a fingerprint claimed before a clear() is granted again.
GrantedAgainAfterClear ==
  /\ Solo
  /\ last.out = "False"
  /\ last.fp \in cleared

LockTimeoutIsRetryable ==
  dupefilter_class = "sqlite" =>
    /\ last.fault = "locked" =>
         /\ last.out = "OperationalError"
         /\ write_lock \notin {0, owner[last.c]}
    /\ \A c \in workers : timed_out[c] # Nil =>
         (timed_out[c] \in seen_urls <=> grants[timed_out[c]] >= 1)
    /\ (last.retry /\ last.out = "True") => grants[last.fp] = 1
    /\ (last.retry /\ last.out = "False") => claimant[last.fp] = last.c

\* C7 witness: the retry of a call that raised on the lock is granted.
RetryGranted ==
  /\ dupefilter_class = "sqlite"
  /\ last.retry
  /\ last.out = "False"

\* C8: the flat file is safe for a single worker: one that is its only user
\* is granted a fingerprint at most once, across its sessions.
FileSingleWorkerSafe ==
  (dupefilter_class = "file" /\ Solo) => \A fp \in Fingerprints : grants[fp] <= 1

\* C8 witness: two processes that opened the file before either claimed the
\* fingerprint were both told False (both appended it).
FileTwoProcessesBothGranted ==
  /\ dupefilter_class = "file"
  /\ status[1] = "open" /\ status[2] = "open"
  /\ owner[1] = 1 /\ owner[2] = 2
  /\ \E fp \in Fingerprints :
       /\ grants[fp] = 2
       /\ fp \in seen_fingerprints[1] \cap seen_fingerprints[2]
       /\ Cardinality({ k \in 1 .. Len(Lines) : Lines[k] = fp }) = 2

\* C9: flat file, the callers are threads of one worker on one filter
\* instance: a fingerprint is granted to at most one of the calls.
FileThreadsExactlyOneClaim ==
  (dupefilter_class = "file" /\ Cardinality(Instances) = 1) =>
    \A fp \in Fingerprints : grants[fp] <= 1

\* A step of clear().
ClearStep ==
  \E c \in Callers :
    \/ RedisClearScan(c)
    \/ \E k \in redis_keys \cup todo[c] : RedisClearDelete(c, k)
    \/ RedisClearDone(c)
    \/ SqliteClearDelete(c)
    \/ SqliteClearCommit(c)
    \/ FileClear(c)

----------------------------------------------------------------------------
(* Fingerprints, compaction, key space, selection, frame *)

\* Two Request objects for one canonical request (url1 and url3 of the tests).
IdentityEquivalent(r1, r2) == r1.url = r2.url

\* A step of request_seen(request) of caller c that reads its argument.
RequestSeen(c, request) ==
  CASE dupefilter_class = "redis" ->
         \/ RedisRequestSeen(c, request)
         \/ RedisRequestSeenUnreachable(c, request)
    [] dupefilter_class = "sqlite" ->
         \/ SqliteInsert(c, request)
         \/ SqliteInsertLocked(c, request)
    [] OTHER ->
         \/ FileRequestSeen(c, request)
         \/ FileRequestSeenAppendFails(c, request)
         \/ FileTest(c, request)

IsCompact(lines, set) ==
  /\ Range(lines) = set
  /\ Len(lines) = Cardinality(set)
  /\ \A k \in 1 .. Len(lines) - 1 : BytesLess(BytesOf(lines[k]), BytesOf(lines[k + 1]))

\* C16: flat file: when close() returns, the file holds exactly the
\* fingerprints of the closing filter's in-memory set, one per line, each
\* once, sorted, whatever lines it held before.
FileCloseCompacts ==
  [][\A i \in Callers :
       FileClose(i) => (file' # NoFile /\ IsCompact(file', seen_fingerprints[i]))]_vars

\* C16 witness: a fingerprint that two processes appended (two lines) is on
\* one line after a close(), next to the other fingerprint.
DuplicateLinesCompacted ==
  /\ dupefilter_class = "file"
  /\ file # NoFile
  /\ \E i \in Instances : status[i] = "closed"
  /\ Len(Lines) = 2
  /\ \E fp \in Fingerprints :
       /\ grants[fp] = 2
       /\ Cardinality({ k \in 1 .. Len(Lines) : Lines[k] = fp }) = 1

\* C17: Redis: the keys of the store are exactly prefix:fingerprint, one for
\* each claimed fingerprint, and when the clear() of the only worker returns
\* (no request_seen runs beside it) no key under the prefix is left.
RedisKeysAndClear ==
  /\ [](dupefilter_class = "redis" =>
          redis_keys = { KeyOf(i, fp) :
                           i \in Instances, fp \in { f \in Fingerprints : grants[f] >= 1 } })
  /\ [][\A c \in Callers :
          (Solo /\ RedisClearDone(c)) => Matching(owner[c], redis_keys') = {}]_vars

\* C17 witness: the clear() of a single worker returned, the keys that were
\* claimed before it are gone.
ClearLeftNoKeys ==
  /\ dupefilter_class = "redis"
  /\ Solo
  /\ cleared # {}
  /\ \A c \in workers : pc[c] = "idle" /\ status[owner[c]] = "open"
  /\ \A fp \in Fingerprints : calls[fp] = 0
  /\ redis_keys = {}

\* C18: the backend is a total function of the DUPEFILTER_CLASS setting:
\* "redis", "sqlite" and "file" select their own filter, a missing or unknown
\* value selects the Redis filter; one backend is selected and it never
\* changes.
BackendSelectionTotal ==
  /\ [](/\ dupefilter_class \in {"redis", "sqlite", "file"}
        /\ DUPEFILTER_CLASS \in {"redis", "sqlite", "file"}
             => dupefilter_class = DUPEFILTER_CLASS
        /\ DUPEFILTER_CLASS \notin {"redis", "sqlite", "file"}
             => dupefilter_class = "redis")
  /\ [][dupefilter_class' = dupefilter_class]_vars

\* C18 witness: with an unknown name and with no entry, the crawler's filter
\* claimed a fingerprint in Redis.
UnknownNameSelectsRedis ==
  /\ DUPEFILTER_CLASS \in {Nil, "mongodb"}
  /\ last.out = "False"
  /\ KeyOf(owner[last.c], last.fp) \in redis_keys

\* C20: a request_seen that returns True leaves the Seen-Set as it was, one
\* that returns False adds its fingerprint and nothing else; no call changes
\* the membership of another fingerprint in the store or in an in-memory set,
\* and the verdict is True exactly when the set the call consults held the
\* fingerprint (for the flat file: when the call is not raced by another
\* thread of its worker), so calls for other fingerprints do not change it.
RequestSeenFrame ==
  [][(last' # NoCall) =>
       /\ last'.out = "True" => (Stored' = Stored /\ last'.fp \in Consulted(last'.c))
       /\ last'.out = "False" => Stored' = Stored \cup {last'.fp}
       /\ (last'.out = "False" /\ SingleThreaded(owner[last'.c]))
            => last'.fp \notin Consulted(last'.c)
       /\ Stored' \ {last'.fp} = Stored \ {last'.fp}
       /\ \A i \in Callers :
            seen_fingerprints'[i] \ {last'.fp} = seen_fingerprints[i] \ {last'.fp}]_vars

\* C20 witness: a worker was granted a fingerprint while the store held
\* another one, claimed by another worker, which is still there.
ClaimLeavesOthersInPlace ==
  /\ last.out = "False"
  /\ \E g \in Stored : g # last.fp /\ claimant[g] \notin {0, last.c}

\* A close() of a filter whose open() never ran or raised.
CloseUnopened(i) ==
  \/ RedisCloseUnopened(i)
  \/ SqliteCloseUnopened(i)
  \/ FileCloseUnopened(i)

\* C11: close() of a filter whose open() was never called, or failed, leaves
\* the durable Seen-Set (Redis keys, SQLite rows, lines of the flat file) as it
\* was.
CloseUnopenedKeepsStore ==
  [][\A i \in Callers :
       CloseUnopened(i) =>
         (redis_keys' = redis_keys /\ seen_urls' = seen_urls /\ Lines' = Lines)]_vars

\* C19: a filter instance never has more than one open connection, and none
\* once it is closed.
OneHandlePerFilter ==
  \A i \in Callers :
    /\ handles(i) <= 1
    /\ status[i] = "closed" => handles(i) = 0

\* C12: in the runs of the entry points no clear of the store is in progress
\* while a worker's session on the store is open.
ClearOnlyBeforeCrawl ==
  \A c \in workers :
    pc[c] = "scan" => \A d \in workers : status[owner[d]] # "open"

\* C13: SQLite writers serialize: a request_seen raises "locked" only when a
\* connection kept the write lock longer than the lock wait, and unless that
\* happens a call for a fingerprint that is not claimed, and that no other
\* call carries, waits for the lock and returns False.
SqliteWritersSerialize ==
  /\ [](last.fault = "locked" => overdue)
  /\ \A c \in Callers : \A fp \in Fingerprints :
       (dupefilter_class = "sqlite" /\ pc[c] = "execute" /\ arg[c] = fp /\ fp \notin seen_urls)
         ~> \/ overdue
            \/ last.c = c /\ last.fp = fp /\ last.out = "False"
            \/ \E d \in Callers \ {c} : arg[d] = fp

\* C13 witness: a process was told False for its fingerprint while the
\* other process, granted a different fingerprint, is waiting with its next
\* INSERT; no lock was kept longer than the wait and no call raised.
BothWritersGranted ==
  /\ dupefilter_class = "sqlite"
  /\ last.out = "False"
  /\ ~overdue
  /\ \A c \in Callers : timed_out[c] = Nil
  /\ \E d \in workers \ {last.c} :
       /\ pc[d] = "execute"
       /\ \E g \in seen_urls : g # last.fp /\ claimant[g] = d

\* C14: every request_seen of the Redis and SQLite filters that was started
\* comes to an end (a verdict or an error).
EveryCallCompletes ==
  \A c \in Callers : (pc[c] # "idle") ~> (pc[c] = "idle")

\* C21: flat file: a request_seen that returns False has appended its
\* fingerprint to the file when it returns; when the session of the process
\* using the file ends without close(), the fingerprints it was granted are
\* in the file, and a later filter opened on the file is told True for each
\* of them.
FileAppendSurvivesCrash ==
  /\ [][last'.out = "False" => last'.fp \in Range(Lines')]_vars
  /\ [][\A i \in Callers :
          (Cardinality(Instances) = 1 /\ Crash(i)) =>
            \A fp \in Fingerprints : claimant[fp] \in CallersOf(i) => fp \in Range(Lines')]_vars
  /\ [](Cardinality(Instances) = 1 =>
          \A fp \in Fingerprints :
            (grants[fp] >= 1 /\ claimant[fp] = 0) =>
              ((last.fp = fp /\ last.out \in Verdicts) => last.out = "True"))

\* C21 witness: a session appended two fingerprints and ended without
\* close() (the lines are not sorted); the next filter on the file was told
\* True for one of them.
CrashedSessionsClaimSeen ==
  /\ dupefilter_class = "file"
  /\ Cardinality(Instances) = 1
  /\ Len(Lines) = 2
  /\ Lines # sorted(Range(Lines))
  /\ last.out = "True"
  /\ grants[last.fp] = 1
  /\ claimant[last.fp] = 0

\* C22: Redis clear() beside request_seen of another worker is not atomic:
\* the keys left in the store when clear() returns are keys inserted while it
\* scanned (every key present when the scan began is deleted), and such a key
\* either survives the clear or is deleted by it, after which its
\* fingerprint is granted again.
RedisClearNotAtomic ==
  /\ [][\A c \in Callers :
          RedisClearDone(c) =>
            \A fp \in Fingerprints :
              KeyOf(owner[c], fp) \in redis_keys' => raced[fp] = "during"]_vars
  /\ [](\A fp \in Fingerprints : raced[fp] = "again" => grants[fp] = 1)

\* C22 witness: no clear is running; of two fingerprints granted during the
\* last clear one survived it (the store was not empty when clear()
\* returned) and the other was deleted by it and has now been granted again.
ClearRacedBothWays ==
  /\ dupefilter_class = "redis"
  /\ ~Scanning
  /\ last.out = "False"
  /\ raced[last.fp] = "again"
  /\ \E g \in Fingerprints :
       /\ raced[g] = "during"
       /\ \E i \in Instances : KeyOf(i, g) \in redis_keys

\* C23: SQLite: a request_seen that returned False or True has left its
\* connection with no open transaction and without the write lock.
RequestSeenLeavesNoTransaction ==
  (dupefilter_class = "sqlite" /\ last.out \in Verdicts) =>
    /\ ~in_transaction[owner[last.c]]
    /\ write_lock # owner[last.c]

\* C24: flat file: a request_seen that raises on the append leaves the
\* in-memory sets as they were.
FileAppendFailureKeepsSet ==
  [][last'.fault = "io" => seen_fingerprints' = seen_fingerprints]_vars

\* C25: flat file used by one process: after every completed open(),
\* request_seen(), clear() and close() the fingerprints on the lines of the
\* file are the in-memory set (no file: the empty set).
FileMatchesMemory ==
  (dupefilter_class = "file" /\ Cardinality(Instances) = 1) =>
    \A i \in Instances :
      (status[i] \in {"open", "closed"} /\ Idle(i) /\ last.fault # "io")
        => Range(Lines) = seen_fingerprints[i]

\* C26: one worker, sole user of its store, starting from an empty store,
\* issues the same sequence of open, request_seen, clear, close and reopen to
\* a filter of each class: every request_seen gets the same boolean from the
\* three, and the three stores hold the same fingerprints.
BackendsEquivalent ==
  /\ last.out # "differ"
  /\ last.out \in Verdicts \cup {Nil}
  /\ { fp \in Fingerprints : KeyOf(1, fp) \in redis_keys } = seen_urls
  /\ seen_urls = Range(Lines)

\* C26 witness: after a clear and a reopen the three filters answered True
\* for a fingerprint an earlier session had claimed, and the three stores
\* hold both fingerprints.
AllAnsweredTrueAfterReopen ==
  /\ last.out = "True"
  /\ claimant[last.fp] = 0
  /\ cleared # {}
  /\ seen_urls = Fingerprints
  /\ Range(Lines) = Fingerprints
  /\ \A fp \in Fingerprints : KeyOf(1, fp) \in redis_keys

\* C27: Redis: for distinct prefixes P and Q, no step of request_seen or
\* clear() of a filter with prefix P creates or deletes a key used with
\* prefix Q.
PrefixesIndependent ==
  [][\A c \in Callers :
       (\/ \E r \in Requests : RedisRequestSeen(c, r)
        \/ RedisClearScan(c)
        \/ \E k \in redis_keys \cup todo[c] : RedisClearDelete(c, k)
        \/ RedisClearDone(c))
         => \A q \in Prefixes \ {key_prefix(owner[c])} :
              redis_keys' \cap UsedWith(q) = redis_keys \cap UsedWith(q)]_vars

\* C28 as stated: the Qdrant filter returns True for every URL that has a
\* point in the collection, and in a session without a failed query for the
\* URL it returns False for it at most once.
QdrantSeenOncePerSession ==
  /\ (last # NoCall /\ last.fp \in points) => last.out = "True"
  /\ \A i \in Callers : \A url \in Urls : url \notin failed[i] => falses[i][url] <= 1

\* C28 amended: the Qdrant filter returns True for every URL that has a point
\* in the collection unless the query raises, and in a session without a
\* failed query for the URL it returns False for it at most once: the URL is
\* in the session set from then on, and every later call before close()
\* returns True.
QdrantSeenUnlessQueryFails ==
  /\ [](/\ (last # NoCall /\ last.fp \in points /\ last.fault = "none") => last.out = "True"
        /\ \A i \in Callers : \A url \in Urls :
             url \notin failed[i] =>
               /\ falses[i][url] <= 1
               /\ falses[i][url] = 1 => url \in fingerprints[i])
  /\ [][(last' # NoCall /\ last'.fp \in fingerprints[owner[last'.c]]) => last'.out = "True"]_vars

\* C28 witness: with no failed query in the session, a URL that has no point
\* was let through once and the later call for it returned True.
QdrantSecondCallTrue ==
  /\ last.out = "True"
  /\ last.fp \in Urls \ points
  /\ failed[owner[last.c]] = {}
  /\ falses[owner[last.c]][last.fp] = 1

\* C29: when the Qdrant query raises, request_seen returns False and leaves
\* the session set as it was (the URL is not in it), and a call for a URL
\* that is not in the session set is answered by the collection: the next
\* call for the URL queries Qdrant again.
QdrantFailureDoesNotFilter ==
  /\ [](last.fault = "qdrant" =>
          (last.out = "False" /\ last.fp \notin fingerprints[owner[last.c]]))
  /\ [][last'.fault = "qdrant" => fingerprints' = fingerprints]_vars
  /\ [][(last' # NoCall /\ last'.fault = "none" /\ last'.fp \notin fingerprints[owner[last'.c]])
         => (last'.out = "True" <=> last'.fp \in points)]_vars

\* C29 witness: the query for a URL raised and the call returned False; the
\* next call for the URL found its point in the collection and returned True.
QdrantAnsweredAfterFailure ==
  /\ last.out = "True"
  /\ last.fault = "none"
  /\ last.fp \in failed[owner[last.c]]
  /\ last.fp \in points
  /\ falses[owner[last.c]][last.fp] = 1

====
